---- MODULE Spec2Model ----
(***************************************************************************)
(* tiny_regex_rs: the code generator (src/src/engine/codegen.rs), the      *)
(* backtracking evaluator it feeds, and the line driver match_file         *)
(* (src/src/main.rs).                                                      *)
(*                                                                         *)
(* The generator is modelled statement by statement: the recursion of      *)
(* gen_expr is an explicit stack of activation frames, each holding the    *)
(* rule, the AST node, the position in the rule's body and its locals.     *)
(* hist is a history of the generation (who pushed which instruction); par *)
(* holds the evaluations that share one program.                           *)
(*                                                                         *)
(* Spec       compiles a tree, then evaluates the program on a text under  *)
(*            both strategies; SpecGen is its generation alone.            *)
(* SpecFile   is match_file over the lines of a file.                      *)
(* SpecShared interleaves two evaluations of one program.                  *)
(***************************************************************************)
EXTENDS Integers, Sequences, FiniteSets, TLC

VARIABLES ast, gen, ret, text, evD, evW, phase, drv, hist, par

vars == <<ast, gen, ret, text, evD, evW, phase, drv, hist, par>>

(***************************************************************************)
(* Bounds                                                                  *)
(***************************************************************************)
\* Largest number of nodes of an expression tree.
MaxNodes == 4
\* Largest length of a text handed to the evaluator.
MaxText == 3
\* Stands for usize::MAX: the largest value of the address counter.
UsizeMax == 6
\* Depth limit of the call-stack strategy (nested activations).
DepthLimit == 5
\* Largest number of backtrack records the explicit stack is followed to
\* (the heap in the program).
StackCap == 7
\* Largest number of lines of a file, and largest length of a line.
MaxLines == 2
MaxLine == 3
\* Largest number of nodes of the expression match_file is given.
MaxExprNodes == 3
\* Evaluations sharing one program: largest number of nodes of the expression
\* and largest length of each text.
MaxParNodes == 3
MaxParText == 1

Chars == {"a", "b"}

(***************************************************************************)
(* AST (engine::parser::AST as used by codegen.rs)                         *)
(***************************************************************************)
Node(tag, c, kids) == [tag |-> tag, c |-> c, kids |-> kids]
AChar(c) == Node("Char", c, <<>>)
ADot == Node("Dot", "", <<>>)
AOr(e1, e2) == Node("Or", "", <<e1, e2>>)
APlus(e) == Node("Plus", "", <<e>>)
AStar(e) == Node("Star", "", <<e>>)
AQuestion(e) == Node("Question", "", <<e>>)
ASeq(v) == Node("Seq", "", v)

RECURSIVE TreesOfSize(_), SeqsOfSize(_)
\* All trees with exactly n nodes.
TreesOfSize(n) ==
    IF n <= 0 THEN {}
    ELSE IF n = 1 THEN {AChar(c) : c \in Chars} \cup {ADot, ASeq(<<>>)}
    ELSE LET sub == TreesOfSize(n - 1)
         IN  {APlus(e) : e \in sub} \cup {AStar(e) : e \in sub}
             \cup {AQuestion(e) : e \in sub}
             \cup UNION {{AOr(e1, e2) : e1 \in TreesOfSize(i),
                                          e2 \in TreesOfSize(n - 1 - i)}
                         : i \in 1..(n - 2)}
             \cup {ASeq(v) : v \in SeqsOfSize(n - 1)}
\* All non-empty lists of trees with n nodes in total.
SeqsOfSize(n) ==
    IF n <= 0 THEN {}
    ELSE {<<e>> : e \in TreesOfSize(n)}
         \cup UNION {{<<e>> \o v : e \in TreesOfSize(i), v \in SeqsOfSize(n - i)}
                     : i \in 1..(n - 1)}

Trees == UNION {TreesOfSize(n) : n \in 1..MaxNodes}

RECURSIVE TextsOfLen(_)
TextsOfLen(n) ==
    IF n = 0 THEN {<<>>}
    ELSE {<<c>> \o t : c \in Chars, t \in TextsOfLen(n - 1)}
Texts == UNION {TextsOfLen(n) : n \in 0..MaxText}

(***************************************************************************)
(* Instruction (engine::Instruction as built by codegen.rs)                *)
(***************************************************************************)
Inst(op, c, x, y) == [op |-> op, c |-> c, x |-> x, y |-> y]
IChar(c) == Inst("Char", c, 0, 0)
IDot == Inst("Dot", "", 0, 0)
IMatch == Inst("Match", "", 0, 0)
IJump(x) == Inst("Jump", "", x, 0)
ISplit(x, y) == Inst("Split", "", x, y)

(***************************************************************************)
(* Generator                                                               *)
(***************************************************************************)
\* Generator::default(): pc = 0, insts empty; no activation yet.
NewGenerator == [pc |-> 0, insts |-> <<>>, frames |-> <<>>, err |-> "none"]

Frame(rule, node) == [rule |-> rule, node |-> node, at |-> 0, a |-> 0, b |-> 0]
Top(g) == g.frames[Len(g.frames)]
SetTop(g, f) == [g EXCEPT !.frames[Len(g.frames)] = f]
At(g, n) == SetTop(g, [Top(g) EXCEPT !.at = n])
\* Ok(()) of a rule: its activation ends.
Return(g) == [g EXCEPT !.frames = SubSeq(@, 1, Len(@) - 1)]
\* Err(e) carried by `?` through every caller up to get_code.
Fail(g, e) == [g EXCEPT !.err = e, !.frames = <<>>]
Push(g, i) == [g EXCEPT !.insts = Append(@, i)]

\* helper::safe_add on usize: checked addition.
safe_add(dst, src) ==
    IF dst + src > UsizeMax THEN [ok |-> FALSE, v |-> dst]
    ELSE [ok |-> TRUE, v |-> dst + src]

\* Mutant: the increment wraps around instead of failing.
inc_pc_wrapping(g) == [g EXCEPT !.pc = (@ + 1) % (UsizeMax + 1)]

inc_pc(g) ==
    LET r == safe_add(g.pc, 1)
    IN  IF r.ok THEN [g EXCEPT !.pc = r.v] ELSE Fail(g, "PCOverFlow")

RuleOf(tag) ==
    CASE tag = "Char" -> "gen_char"
      [] tag = "Dot" -> "gen_dot"
      [] tag = "Or" -> "gen_or"
      [] tag = "Plus" -> "gen_plus"
      [] tag = "Star" -> "gen_star"
      [] tag = "Question" -> "gen_question"
      [] tag = "Seq" -> "gen_seq"

\* A call of gen_expr: the match dispatches to the rule of the node.
gen_expr(g, node) == [g EXCEPT !.frames = Append(@, Frame(RuleOf(node.tag), node))]

\* insts.get_mut(addr) is Some(Split(_, l2)) / Some(Jump(l3)).
IsSplitAt(g, addr) == addr < Len(g.insts) /\ g.insts[addr + 1].op = "Split"
IsJumpAt(g, addr) == addr < Len(g.insts) /\ g.insts[addr + 1].op = "Jump"
PatchY(g, addr, v) == [g EXCEPT !.insts[addr + 1].y = v]
PatchX(g, addr, v) == [g EXCEPT !.insts[addr + 1].x = v]

gen_char(g) ==
    LET f == Top(g)
    IN  CASE f.at = 0 -> At(Push(g, IChar(f.node.c)), 1)
          [] f.at = 1 -> Return(inc_pc(g))

\* Mutant: the counter is not advanced.
gen_dot_no_inc(g) ==
    LET f == Top(g)
    IN  CASE f.at = 0 -> At(Push(g, IDot), 1)
          [] f.at = 1 -> Return(g)

gen_dot(g) ==
    LET f == Top(g)
    IN  CASE f.at = 0 -> At(Push(g, IDot), 1)
          [] f.at = 1 -> Return(inc_pc(g))

\* split L1, L2 of gen_or: L1 is the counter after the increment, L2 is 0 for now.
or_split(pc) == ISplit(pc, 0)
\* jmp L3 of gen_or, L3 is 0 for now.
or_jump == IJump(0)

\* Mutant: L2 is taken before the counter passes the jump, so the fallback
\* lands on `jmp L3`.
or_l2_early(g) == g.pc - 1
\* Mutant: L3 is taken where L2 was, right after the jump: e1's code runs on
\* into e2's.
or_l3_early(g) == Top(g).b + 1
\* Mutant: L3 is one past the address that follows e2's code.
or_l3_past(g) == g.pc + 1
\* *l2 = self.pc and *l3 = self.pc of gen_or.
or_l2(g) == g.pc
or_l3(g) == g.pc

gen_or(g) ==
    LET f == Top(g)
    IN  CASE f.at = 0 -> inc_pc(SetTop(g, [f EXCEPT !.a = g.pc, !.at = 1]))
          [] f.at = 1 -> At(Push(g, or_split(g.pc)), 2)
          [] f.at = 2 -> gen_expr(At(g, 3), f.node.kids[1])
          [] f.at = 3 -> Push(SetTop(g, [f EXCEPT !.b = g.pc, !.at = 4]), or_jump)
          [] f.at = 4 -> inc_pc(At(g, 5))
          [] f.at = 5 -> IF IsSplitAt(g, f.a) THEN At(PatchY(g, f.a, or_l2(g)), 6)
                         ELSE Fail(g, "FailOr")
          [] f.at = 6 -> gen_expr(At(g, 7), f.node.kids[2])
          [] f.at = 7 -> IF IsJumpAt(g, f.b) THEN Return(PatchX(g, f.b, or_l3(g)))
                         ELSE Fail(g, "FailOr")

\* Mutant: the operands are swapped, the counter lands in the fallback slot.
question_split_swapped(pc) == ISplit(0, pc)
question_split(pc) == ISplit(pc, 0)

question_l2(g) == g.pc

\* Mutant: the rule returns without writing L2 into the Split.
gen_question_no_patch(g) ==
    LET f == Top(g)
    IN  CASE f.at = 0 -> inc_pc(SetTop(g, [f EXCEPT !.a = g.pc, !.at = 1]))
          [] f.at = 1 -> At(Push(g, question_split(g.pc)), 2)
          [] f.at = 2 -> gen_expr(At(g, 3), f.node.kids[1])
          [] f.at = 3 -> Return(g)

gen_question(g) ==
    LET f == Top(g)
    IN  CASE f.at = 0 -> inc_pc(SetTop(g, [f EXCEPT !.a = g.pc, !.at = 1]))
          [] f.at = 1 -> At(Push(g, question_split(g.pc)), 2)
          [] f.at = 2 -> gen_expr(At(g, 3), f.node.kids[1])
          [] f.at = 3 -> IF IsSplitAt(g, f.a) THEN Return(PatchY(g, f.a, question_l2(g)))
                         ELSE Fail(g, "FailQuestion")

plus_split(l1_addr) == ISplit(l1_addr, 0)
\* Mutant: split_addr is read after the increment.
plus_split_addr_late(g) == g.pc + 1
\* let split_addr = self.pc, taken after e's code.
plus_split_addr(g) == g.pc

plus_l2(g) == g.pc

gen_plus(g) ==
    LET f == Top(g)
    IN  CASE f.at = 0 -> gen_expr(SetTop(g, [f EXCEPT !.a = g.pc, !.at = 1]),
                                  f.node.kids[1])
          [] f.at = 1 -> inc_pc(SetTop(g, [f EXCEPT !.b = plus_split_addr(g), !.at = 2]))
          [] f.at = 2 -> At(Push(g, plus_split(f.a)), 3)
          [] f.at = 3 -> IF IsSplitAt(g, f.b) THEN Return(PatchY(g, f.b, plus_l2(g)))
                         ELSE Fail(g, "FailPlus")

star_split(pc) == ISplit(pc, 0)
\* Mutant: the loop jumps back to the body, past the Split at L1.
star_jump_to_body(l1_addr) == IJump(l1_addr + 1)
star_jump(l1_addr) == IJump(l1_addr)

star_l3(g) == g.pc

\* Mutant: L3 is written into the Split one address after the recorded one
\* when a Split stands there.
gen_star_patch_next(g) ==
    LET f == Top(g)
    IN  CASE f.at = 0 -> inc_pc(SetTop(g, [f EXCEPT !.a = g.pc, !.at = 1]))
          [] f.at = 1 -> At(Push(g, star_split(g.pc)), 2)
          [] f.at = 2 -> gen_expr(At(g, 3), f.node.kids[1])
          [] f.at = 3 -> At(Push(g, star_jump(f.a)), 4)
          [] f.at = 4 -> inc_pc(At(g, 5))
          [] f.at = 5 -> IF IsSplitAt(g, f.a + 1)
                         THEN Return(PatchY(g, f.a + 1, star_l3(g)))
                         ELSE IF IsSplitAt(g, f.a)
                         THEN Return(PatchY(g, f.a, star_l3(g)))
                         ELSE Fail(g, "FailStar")

gen_star(g) ==
    LET f == Top(g)
    IN  CASE f.at = 0 -> inc_pc(SetTop(g, [f EXCEPT !.a = g.pc, !.at = 1]))
          [] f.at = 1 -> At(Push(g, star_split(g.pc)), 2)
          [] f.at = 2 -> gen_expr(At(g, 3), f.node.kids[1])
          [] f.at = 3 -> At(Push(g, star_jump(f.a)), 4)
          [] f.at = 4 -> inc_pc(At(g, 5))
          [] f.at = 5 -> IF IsSplitAt(g, f.a) THEN Return(PatchY(g, f.a, star_l3(g)))
                         ELSE Fail(g, "FailStar")

\* for e in exprs: the local a is the index of the next child.
gen_seq(g) ==
    LET f == Top(g)
    IN  IF f.a < Len(f.node.kids)
        THEN gen_expr(SetTop(g, [f EXCEPT !.a = f.a + 1]), f.node.kids[f.a + 1])
        ELSE Return(g)

\* Mutant: the final Match is not pushed.
gen_code_no_match(g) ==
    LET f == Top(g)
    IN  CASE f.at = 0 -> gen_expr(At(g, 1), f.node)
          [] f.at = 1 -> inc_pc(At(g, 2))
          [] f.at = 2 -> Return(g)

gen_code(g) ==
    LET f == Top(g)
    IN  CASE f.at = 0 -> gen_expr(At(g, 1), f.node)
          [] f.at = 1 -> inc_pc(At(g, 2))
          [] f.at = 2 -> Return(Push(g, IMatch))

\* One statement of the running rule.
GenStep(g) ==
    LET r == Top(g).rule
    IN  CASE r = "gen_code" -> gen_code(g)
          [] r = "gen_char" -> gen_char(g)
          [] r = "gen_dot" -> gen_dot(g)
          [] r = "gen_or" -> gen_or(g)
          [] r = "gen_question" -> gen_question(g)
          [] r = "gen_plus" -> gen_plus(g)
          [] r = "gen_star" -> gen_star(g)
          [] r = "gen_seq" -> gen_seq(g)

\* get_code up to the call of gen_code.
GenStart(t) == [NewGenerator EXCEPT !.frames = <<Frame("gen_code", t)>>]

NoResult == [st |-> "none", insts |-> <<>>, err |-> "none"]
\* generator.gen_code(ast)?; Ok(generator.insts)
get_code_result(g) ==
    IF g.err = "none" THEN [st |-> "Ok", insts |-> g.insts, err |-> "none"]
    ELSE [st |-> "Err", insts |-> <<>>, err |-> g.err]

RECURSIVE GenRun(_)
GenRun(g) == IF g.frames = <<>> THEN g ELSE GenRun(GenStep(g))
\* get_code as one call.
get_code(t) == get_code_result(GenRun(GenStart(t)))

(***************************************************************************)
(* Evaluator (engine::evaluator is not among the sources: its stepping     *)
(* rules are those of the specification, section 4.2)                      *)
(***************************************************************************)
\* An evaluation: program counter, input cursor, saved alternatives, result
\* ("running", "true", "false" or an error) and the kind of the last step.
EvalStart == [pc |-> 0, sp |-> 0, stack |-> <<>>, res |-> "running", last |-> "start"]

\* The condition of a consume instruction at the input cursor.
Consumes(i, txt, sp) ==
    /\ sp < Len(txt)
    /\ i.op = "Char" => txt[sp + 1] = i.c

\* A successful consume step: both the program counter and the cursor advance.
Advance(e) == [e EXCEPT !.pc = @ + 1, !.sp = @ + 1, !.last = "consume"]

\* Mutant: the resumed record's program counter is taken, the cursor is kept.
BacktrackKeepsCursor(e) ==
    IF e.stack = <<>> THEN [e EXCEPT !.res = "false", !.last = "fail"]
    ELSE LET r == e.stack[Len(e.stack)]
         IN  [e EXCEPT !.pc = r.pc, !.stack = SubSeq(@, 1, Len(@) - 1),
                       !.last = "backtrack"]

\* Explicit-stack strategy: a failed path resumes the most recent record.
Backtrack(e) ==
    IF e.stack = <<>> THEN [e EXCEPT !.res = "false", !.last = "fail"]
    ELSE LET r == e.stack[Len(e.stack)]
         IN  [e EXCEPT !.pc = r.pc, !.sp = r.sp,
                       !.stack = SubSeq(@, 1, Len(@) - 1), !.last = "backtrack"]

\* Mutant: the record is put under the saved ones: the oldest record is the
\* first to be resumed.
WidthSplitFifo(e, i) ==
    [e EXCEPT !.stack = <<[pc |-> i.y, sp |-> e.sp]>> \o @, !.pc = i.x,
              !.last = "split"]

\* Split(preferred, fallback) of the explicit-stack strategy.
WidthSplit(e, i) ==
    [e EXCEPT !.stack = Append(@, [pc |-> i.y, sp |-> e.sp]), !.pc = i.x,
              !.last = "split"]

\* Mutant: Match succeeds only when the whole text has been read.
eval_width_whole_text(prog, txt, e) ==
    IF e.pc >= Len(prog) THEN [e EXCEPT !.res = "InvalidPC", !.last = "fail"]
    ELSE LET i == prog[e.pc + 1]
         IN  CASE i.op \in {"Char", "Dot"} ->
                    IF Consumes(i, txt, e.sp) THEN Advance(e) ELSE Backtrack(e)
               [] i.op = "Jump" -> [e EXCEPT !.pc = i.x, !.last = "jump"]
               [] i.op = "Split" -> WidthSplit(e, i)
               [] i.op = "Match" ->
                    IF e.sp = Len(txt) THEN [e EXCEPT !.res = "true", !.last = "match"]
                    ELSE Backtrack(e)

\* One step of the explicit-stack strategy.
eval_width(prog, txt, e) ==
    IF e.pc >= Len(prog) THEN [e EXCEPT !.res = "InvalidPC", !.last = "fail"]
    ELSE LET i == prog[e.pc + 1]
         IN  CASE i.op \in {"Char", "Dot"} ->
                    IF Consumes(i, txt, e.sp) THEN Advance(e) ELSE Backtrack(e)
               [] i.op = "Jump" -> [e EXCEPT !.pc = i.x, !.last = "jump"]
               [] i.op = "Split" -> WidthSplit(e, i)
               [] i.op = "Match" -> [e EXCEPT !.res = "true", !.last = "match"]

\* The explicit stack is followed up to StackCap records.
WidthCanStep(prog, e) ==
    /\ e.res = "running"
    /\ (e.pc < Len(prog) /\ prog[e.pc + 1].op = "Split") => Len(e.stack) < StackCap

\* Call-stack strategy: the running activation returns false to its caller.
\* A caller whose preferred call failed makes its second call (the fallback,
\* from the cursor it was entered with); one whose second call failed returns
\* false in turn.
RECURSIVE ReturnFalse(_)
ReturnFalse(e) ==
    IF e.stack = <<>> THEN [e EXCEPT !.res = "false", !.last = "fail"]
    ELSE LET r == e.stack[Len(e.stack)]
         IN  IF r.second
             THEN ReturnFalse([e EXCEPT !.stack = SubSeq(@, 1, Len(@) - 1)])
             ELSE [e EXCEPT !.pc = r.pc, !.sp = r.sp,
                            !.stack[Len(e.stack)].second = TRUE,
                            !.last = "backtrack"]

\* Mutant: the nesting is not checked against the depth limit.
DepthSplitUnchecked(e, i) ==
    [e EXCEPT !.stack = Append(@, [pc |-> i.y, sp |-> e.sp, second |-> FALSE]),
              !.pc = i.x, !.last = "split"]

\* Split(preferred, fallback) of the call-stack strategy: a nested activation,
\* refused with an error when the nesting would exceed the depth limit.
DepthSplit(e, i) ==
    IF Len(e.stack) + 2 > DepthLimit
    THEN [e EXCEPT !.res = "StackOverflow", !.last = "fail"]
    ELSE [e EXCEPT !.stack = Append(@, [pc |-> i.y, sp |-> e.sp, second |-> FALSE]),
                   !.pc = i.x, !.last = "split"]

\* One step of the call-stack strategy.
eval_depth(prog, txt, e) ==
    IF e.pc >= Len(prog) THEN [e EXCEPT !.res = "InvalidPC", !.last = "fail"]
    ELSE LET i == prog[e.pc + 1]
         IN  CASE i.op \in {"Char", "Dot"} ->
                    IF Consumes(i, txt, e.sp) THEN Advance(e) ELSE ReturnFalse(e)
               [] i.op = "Jump" -> [e EXCEPT !.pc = i.x, !.last = "jump"]
               [] i.op = "Split" -> DepthSplit(e, i)
               [] i.op = "Match" -> [e EXCEPT !.res = "true", !.last = "match"]

RECURSIVE RunDepth(_, _, _), RunWidth(_, _, _)
RunDepth(prog, txt, e) ==
    IF e.res # "running" THEN e ELSE RunDepth(prog, txt, eval_depth(prog, txt, e))
RunWidth(prog, txt, e) ==
    IF ~WidthCanStep(prog, e) THEN e ELSE RunWidth(prog, txt, eval_width(prog, txt, e))

(***************************************************************************)
(* The language of a tree, independently of the compiled code:             *)
(* Ends(t, txt, i) is the set of j such that txt[i+1..j] belongs to the    *)
(* language of t.                                                          *)
(***************************************************************************)
RECURSIVE Ends(_, _, _), EndsFrom(_, _, _), EndsIter(_, _, _), EndsSeq(_, _, _, _)
EndsFrom(t, txt, S) == UNION {Ends(t, txt, i) : i \in S}
\* Least set containing S and closed under one more occurrence of t.
EndsIter(t, txt, S) ==
    LET S2 == S \cup EndsFrom(t, txt, S)
    IN  IF S2 = S THEN S ELSE EndsIter(t, txt, S2)
EndsSeq(v, k, txt, S) ==
    IF k > Len(v) THEN S ELSE EndsSeq(v, k + 1, txt, EndsFrom(v[k], txt, S))
Ends(t, txt, i) ==
    CASE t.tag = "Char" -> IF i < Len(txt) /\ txt[i + 1] = t.c THEN {i + 1} ELSE {}
      [] t.tag = "Dot" -> IF i < Len(txt) THEN {i + 1} ELSE {}
      [] t.tag = "Or" -> Ends(t.kids[1], txt, i) \cup Ends(t.kids[2], txt, i)
      [] t.tag = "Question" -> {i} \cup Ends(t.kids[1], txt, i)
      [] t.tag = "Plus" -> EndsIter(t.kids[1], txt, Ends(t.kids[1], txt, i))
      [] t.tag = "Star" -> EndsIter(t.kids[1], txt, {i})
      [] t.tag = "Seq" -> EndsSeq(t.kids, 1, txt, {i})
\* Some prefix of txt belongs to the language of t.
PrefixMatches(t, txt) == Ends(t, txt, 0) # {}

Booleans == {"true", "false"}

(***************************************************************************)
(* State machine                                                           *)
(***************************************************************************)
NoEval == [pc |-> 0, sp |-> 0, stack |-> <<>>, res |-> "idle", last |-> "start"]
NoDriver == [n |-> 0, line |-> <<>>, off |-> 0, calls |-> <<>>, out |-> <<>>,
             st |-> "idle"]
NoPar == [tx |-> <<>>, ev |-> <<>>]

\* History of a generation: ids and base give, for each activation on the
\* stack, the number of its call and the number of instructions emitted when
\* it was entered; owner[k] is the call that pushed instruction k, rule[k]
\* the rule that call runs and writes[k] the number of times the instruction
\* was written to afterwards.
NoHist == [ids |-> <<>>, base |-> <<>>, owner |-> <<>>, rule |-> <<>>,
           writes |-> <<>>, calls |-> 0]
HistStart == [NoHist EXCEPT !.ids = <<0>>, !.base = <<0>>]
Record(h, g, g2) ==
    LET n == Len(g.frames)
        n2 == Len(g2.frames)
        called == n2 > n
    IN  [ids |-> IF called THEN Append(h.ids, h.calls + 1) ELSE SubSeq(h.ids, 1, n2),
         base |-> IF called THEN Append(h.base, Len(g.insts))
                  ELSE SubSeq(h.base, 1, n2),
         owner |-> IF Len(g2.insts) > Len(g.insts) THEN Append(h.owner, h.ids[n])
                   ELSE h.owner,
         rule |-> IF Len(g2.insts) > Len(g.insts) THEN Append(h.rule, Top(g).rule)
                  ELSE h.rule,
         writes |-> [k \in 1..Len(g2.insts) |->
                        IF k > Len(g.insts) THEN 0
                        ELSE h.writes[k] + (IF g2.insts[k] # g.insts[k] THEN 1 ELSE 0)],
         calls |-> IF called THEN h.calls + 1 ELSE h.calls]

Init ==
    /\ ast \in Trees
    /\ gen = GenStart(ast)
    /\ ret = NoResult
    /\ text = <<>>
    /\ evD = NoEval
    /\ evW = NoEval
    /\ phase = "gen"
    /\ drv = NoDriver
    /\ hist = HistStart
    /\ par = NoPar

\* The generator is inside an activation of `rule`.
Running(rule) == phase = "gen" /\ gen.frames # <<>> /\ Top(gen).rule = rule

GenCode ==
    /\ Running("gen_code")
    /\ gen' = gen_code(gen)
    /\ hist' = Record(hist, gen, gen')
    /\ UNCHANGED <<ast, ret, text, evD, evW, phase, drv, par>>

GenChar ==
    /\ Running("gen_char")
    /\ gen' = gen_char(gen)
    /\ hist' = Record(hist, gen, gen')
    /\ UNCHANGED <<ast, ret, text, evD, evW, phase, drv, par>>

GenDot ==
    /\ Running("gen_dot")
    /\ gen' = gen_dot(gen)
    /\ hist' = Record(hist, gen, gen')
    /\ UNCHANGED <<ast, ret, text, evD, evW, phase, drv, par>>

GenOr ==
    /\ Running("gen_or")
    /\ gen' = gen_or(gen)
    /\ hist' = Record(hist, gen, gen')
    /\ UNCHANGED <<ast, ret, text, evD, evW, phase, drv, par>>

GenQuestion ==
    /\ Running("gen_question")
    /\ gen' = gen_question(gen)
    /\ hist' = Record(hist, gen, gen')
    /\ UNCHANGED <<ast, ret, text, evD, evW, phase, drv, par>>

GenPlus ==
    /\ Running("gen_plus")
    /\ gen' = gen_plus(gen)
    /\ hist' = Record(hist, gen, gen')
    /\ UNCHANGED <<ast, ret, text, evD, evW, phase, drv, par>>

GenStar ==
    /\ Running("gen_star")
    /\ gen' = gen_star(gen)
    /\ hist' = Record(hist, gen, gen')
    /\ UNCHANGED <<ast, ret, text, evD, evW, phase, drv, par>>

GenSeq ==
    /\ Running("gen_seq")
    /\ gen' = gen_seq(gen)
    /\ hist' = Record(hist, gen, gen')
    /\ UNCHANGED <<ast, ret, text, evD, evW, phase, drv, par>>

GetCodeReturn ==
    /\ phase = "gen"
    /\ gen.frames = <<>>
    /\ ret' = get_code_result(gen)
    /\ phase' = "compiled"
    /\ UNCHANGED <<ast, gen, text, evD, evW, drv, hist, par>>

\* do_matching(expr, text, true): the compiled program is run on a text.
DoMatchingDepth ==
    /\ phase = "compiled"
    /\ ret.st = "Ok"
    /\ \E t \in Texts : text' = t
    /\ evD' = EvalStart
    /\ phase' = "depth"
    /\ UNCHANGED <<ast, gen, ret, evW, drv, hist, par>>

EvalDepth ==
    /\ phase = "depth"
    /\ evD.res = "running"
    /\ evD' = eval_depth(ret.insts, text, evD)
    /\ UNCHANGED <<ast, gen, ret, text, evW, phase, drv, hist, par>>

\* do_matching(expr, text, false) on the same program and text.
DoMatchingWidth ==
    /\ phase = "depth"
    /\ evD.res # "running"
    /\ evW' = EvalStart
    /\ phase' = "width"
    /\ UNCHANGED <<ast, gen, ret, text, evD, drv, hist, par>>

EvalWidth ==
    /\ phase = "width"
    /\ WidthCanStep(ret.insts, evW)
    /\ evW' = eval_width(ret.insts, text, evW)
    /\ UNCHANGED <<ast, gen, ret, text, evD, phase, drv, hist, par>>

Next ==
    \/ GenCode
    \/ GenChar
    \/ GenDot
    \/ GenOr
    \/ GenQuestion
    \/ GenPlus
    \/ GenStar
    \/ GenSeq
    \/ GetCodeReturn
    \/ DoMatchingDepth
    \/ EvalDepth
    \/ DoMatchingWidth
    \/ EvalWidth

Spec == Init /\ [][Next]_vars

\* The generation alone: get_code from its call to its return.
NextGen ==
    \/ GenCode
    \/ GenChar
    \/ GenDot
    \/ GenOr
    \/ GenQuestion
    \/ GenPlus
    \/ GenStar
    \/ GenSeq
    \/ GetCodeReturn

SpecGen == Init /\ [][NextGen]_vars

(***************************************************************************)
(* match_file (src/src/main.rs): the expression is given parsed; the file  *)
(* is read line by line, each line readable.  The driver's state is the    *)
(* number n of lines read, the current line, the next offset, the answers  *)
(* of the matcher on the current line (calls[k] is the answer at offset    *)
(* k - 1) and out, the numbers of the lines printed so far.                *)
(***************************************************************************)
Lines == UNION {TextsOfLen(k) : k \in 0..MaxLine}
FileExprs == UNION {TreesOfSize(k) : k \in 1..MaxExprNodes}

\* &line[i..]
Suffix(line, i) == SubSeq(line, i + 1, Len(line))

\* engine::do_matching(expr, line, is_depth): compile, then evaluate; the
\* result is "true", "false" or an error.
do_matching(t, line, is_depth) ==
    LET r == get_code(t)
    IN  IF r.st = "Err" THEN r.err
        ELSE IF is_depth THEN RunDepth(r.insts, line, EvalStart).res
        ELSE RunWidth(r.insts, line, EvalStart).res

\* engine::print(expr)?: the dump fails when the expression does not compile.
print_ok(t) == get_code(t).st = "Ok"

\* match_file up to the loop over the lines.
match_file_open(d, t) ==
    IF print_ok(t) THEN [d EXCEPT !.st = "line"] ELSE [d EXCEPT !.st = "err"]

\* for line in reader.lines(): the reader yields the next line.
match_file_next_line(d, l) ==
    [d EXCEPT !.n = @ + 1, !.line = l, !.off = 0, !.calls = <<>>, !.st = "scan"]

\* Mutant: the line is printed and the scan goes on to the next offset.
on_match_no_break(d) == [d EXCEPT !.out = Append(@, d.n), !.off = @ + 1]
\* println!("{line}"); break;
on_match(d) == [d EXCEPT !.out = Append(@, d.n), !.st = "line"]

\* One turn of for (i, _) in line.char_indices(): the matcher is called on
\* the suffix at the next offset.
match_file_try(d, t) ==
    LET r == do_matching(t, Suffix(d.line, d.off), TRUE)
        c == [d EXCEPT !.calls = Append(@, r)]
    IN  IF r = "true" THEN on_match(c)
        ELSE IF r = "false" THEN [c EXCEPT !.off = @ + 1]
        ELSE [c EXCEPT !.st = "err"]

InitFile ==
    /\ ast \in FileExprs
    /\ gen = NewGenerator
    /\ ret = NoResult
    /\ text = <<>>
    /\ evD = NoEval
    /\ evW = NoEval
    /\ phase = "file"
    /\ drv = [NoDriver EXCEPT !.st = "open"]
    /\ hist = NoHist
    /\ par = NoPar

MatchFileOpen ==
    /\ drv.st = "open"
    /\ drv' = match_file_open(drv, ast)
    /\ UNCHANGED <<ast, gen, ret, text, evD, evW, phase, hist, par>>

MatchFileNextLine ==
    /\ drv.st = "line"
    /\ drv.n < MaxLines
    /\ \E l \in Lines : drv' = match_file_next_line(drv, l)
    /\ UNCHANGED <<ast, gen, ret, text, evD, evW, phase, hist, par>>

\* reader.lines() is exhausted: match_file returns Ok(()).
MatchFileEnd ==
    /\ drv.st = "line"
    /\ drv' = [drv EXCEPT !.st = "done"]
    /\ UNCHANGED <<ast, gen, ret, text, evD, evW, phase, hist, par>>

\* Mutant: the offset that ends the line is tried as well.
MatchFileTryPastEnd ==
    /\ drv.st = "scan"
    /\ drv.off <= Len(drv.line)
    /\ drv' = match_file_try(drv, ast)
    /\ UNCHANGED <<ast, gen, ret, text, evD, evW, phase, hist, par>>

MatchFileTry ==
    /\ drv.st = "scan"
    /\ drv.off < Len(drv.line)
    /\ drv' = match_file_try(drv, ast)
    /\ UNCHANGED <<ast, gen, ret, text, evD, evW, phase, hist, par>>

\* char_indices is exhausted: the loop over the offsets ends.
MatchFileEndOfLine ==
    /\ drv.st = "scan"
    /\ drv.off >= Len(drv.line)
    /\ drv' = [drv EXCEPT !.st = "line"]
    /\ UNCHANGED <<ast, gen, ret, text, evD, evW, phase, hist, par>>

NextFile ==
    \/ MatchFileOpen
    \/ MatchFileNextLine
    \/ MatchFileEnd
    \/ MatchFileTry
    \/ MatchFileEndOfLine

SpecFile == InitFile /\ [][NextFile]_vars

(***************************************************************************)
(* Two evaluations of one compiled program in a multi-threaded host        *)
(* (specification, section 5): the program is compiled once, evaluation 1  *)
(* runs the call-stack strategy and evaluation 2 the explicit-stack        *)
(* strategy, each on its own text; the host interleaves their steps.       *)
(***************************************************************************)
ParExprs == {t \in UNION {TreesOfSize(k) : k \in 1..MaxParNodes} : get_code(t).st = "Ok"}
ParTexts == UNION {TextsOfLen(k) : k \in 0..MaxParText}

\* The evaluation k can take a step.
shared_can_step(p, prog, k) ==
    IF k = 1 THEN p.ev[1].res = "running" ELSE WidthCanStep(prog, p.ev[2])

\* Mutant: the input cursor is one cell shared by the evaluations.
shared_step_one_cursor(p, prog, k) ==
    LET e == IF k = 1 THEN eval_depth(prog, p.tx[1], p.ev[1])
             ELSE eval_width(prog, p.tx[2], p.ev[2])
    IN  [p EXCEPT !.ev = [j \in 1..2 |-> IF j = k THEN e
                                         ELSE [p.ev[j] EXCEPT !.sp = e.sp]]]
\* One step of evaluation k: it reads the program, its own text and its own
\* record.
shared_step(p, prog, k) ==
    [p EXCEPT !.ev[k] = IF k = 1 THEN eval_depth(prog, p.tx[1], p.ev[1])
                        ELSE eval_width(prog, p.tx[2], p.ev[2])]

InitShared ==
    /\ ast \in ParExprs
    /\ gen = NewGenerator
    /\ ret = get_code(ast)
    /\ text = <<>>
    /\ evD = NoEval
    /\ evW = NoEval
    /\ phase = "shared"
    /\ drv = NoDriver
    /\ hist = NoHist
    /\ par = NoPar

\* Both evaluations are started, each on its text.
SharedStart ==
    /\ par = NoPar
    /\ \E t1 \in ParTexts, t2 \in ParTexts :
           par' = [tx |-> <<t1, t2>>, ev |-> <<EvalStart, EvalStart>>]
    /\ UNCHANGED <<ast, gen, ret, text, evD, evW, phase, drv, hist>>

SharedStepDepth ==
    /\ par # NoPar
    /\ shared_can_step(par, ret.insts, 1)
    /\ par' = shared_step(par, ret.insts, 1)
    /\ UNCHANGED <<ast, gen, ret, text, evD, evW, phase, drv, hist>>

SharedStepWidth ==
    /\ par # NoPar
    /\ shared_can_step(par, ret.insts, 2)
    /\ par' = shared_step(par, ret.insts, 2)
    /\ UNCHANGED <<ast, gen, ret, text, evD, evW, phase, drv, hist>>

NextShared ==
    \/ SharedStart
    \/ SharedStepDepth
    \/ SharedStepWidth

SpecShared == InitShared /\ [][NextShared]_vars

(***************************************************************************)
(* Claims                                                                  *)
(***************************************************************************)
Running0 == phase = "gen" /\ gen.frames # <<>>
Targets(i) == IF i.op = "Split" THEN {i.x, i.y} ELSE IF i.op = "Jump" THEN {i.x} ELSE {}
Ops(prog) == {prog[k].op : k \in 1..Len(prog)}

\* C1: in every program get_code returns, every target of every Jump and
\* Split is an address in [0, program length], and the last instruction is
\* Match.
C1_WellFormed ==
    ret.st = "Ok" =>
        /\ Len(ret.insts) >= 1
        /\ ret.insts[Len(ret.insts)] = IMatch
        /\ \A k \in 1..Len(ret.insts) :
               \A a \in Targets(ret.insts[k]) : a \in 0..Len(ret.insts)
\* A returned program that holds both a Jump and a Split.
C1_Witness == ret.st = "Ok" /\ {"Jump", "Split", "Char"} \subseteq Ops(ret.insts)

\* C2: whenever an evaluation returns a boolean, it is true exactly when
\* some prefix of the text (from index 0) belongs to the language of the
\* tree; a match that exists only from a later offset yields false.
C2_PrefixMatch ==
    /\ evD.res \in Booleans => (evD.res = "true" <=> PrefixMatches(ast, text))
    /\ evW.res \in Booleans => (evW.res = "true" <=> PrefixMatches(ast, text))
\* Both strategies answered false on a text that matches from offset 1 only.
C2_Witness ==
    /\ evD.res = "false"
    /\ evW.res = "false"
    /\ Len(text) >= 2
    /\ Ends(ast, text, 1) # {}
    /\ "Split" \in Ops(ret.insts)

\* C3: when the call-stack strategy returns a boolean (its depth limit is
\* not exhausted), the explicit-stack strategy ends with the same boolean.
C3_StrategiesAgree ==
    (phase = "width" /\ evD.res \in Booleans /\ ~WidthCanStep(ret.insts, evW))
        => evW.res = evD.res
\* Both strategies ended after backtracking over a Split.
C3_Witness ==
    /\ phase = "width"
    /\ evD.res = "true"
    /\ evW.res = "true"
    /\ evW.stack # <<>>
    /\ evW.sp >= 2

\* The instruction a backpatch is about to overwrite, when the generator
\* stands at a backpatch; the rule pushed Split(l1, 0) / Jump(0) at the
\* address it recorded.
AtBackpatch ==
    /\ Running0
    /\ <<Top(gen).rule, Top(gen).at>> \in
           {<<"gen_or", 5>>, <<"gen_or", 7>>, <<"gen_question", 3>>,
            <<"gen_plus", 3>>, <<"gen_star", 5>>}
BackpatchSlotOk ==
    LET f == Top(gen)
        slot(addr) == IF addr < Len(gen.insts) THEN gen.insts[addr + 1] ELSE IMatch
    IN  CASE f.rule = "gen_or" /\ f.at = 7 -> slot(f.b) = IJump(0)
          [] f.rule = "gen_plus" -> slot(f.b) = ISplit(f.a, 0)
          [] OTHER -> slot(f.a) = ISplit(f.a + 1, 0)

\* C4: get_code never returns FailOr, FailQuestion, FailPlus or FailStar:
\* at each backpatch the recorded address holds the Split (or Jump) the same
\* rule invocation emitted, still with its placeholder; the only error is
\* PCOverFlow.
C4_NoInternalError ==
    /\ gen.err \in {"none", "PCOverFlow"}
    /\ ret.err \in {"none", "PCOverFlow"}
    /\ AtBackpatch => BackpatchSlotOk
\* The second backpatch of an alternation nested in two other rules.
C4_Witness ==
    /\ AtBackpatch
    /\ Top(gen).rule = "gen_or"
    /\ Top(gen).at = 7
    /\ Len(gen.frames) >= 3

\* The generator stands at a call of inc_pc.
AtIncPc ==
    /\ Running0
    /\ <<Top(gen).rule, Top(gen).at>> \in
           {<<"gen_char", 1>>, <<"gen_dot", 1>>, <<"gen_or", 0>>, <<"gen_or", 4>>,
            <<"gen_question", 0>>, <<"gen_plus", 1>>, <<"gen_star", 0>>,
            <<"gen_star", 4>>, <<"gen_code", 1>>}

\* C5: an increment that would exceed the maximum fails, get_code then
\* returns PCOverFlow and no instruction sequence (not even the partial
\* one); any other increment adds exactly 1.
C5_Overflow ==
    /\ [][AtIncPc =>
            IF gen.pc = UsizeMax
            THEN gen'.err = "PCOverFlow" /\ gen'.frames = <<>>
            ELSE gen'.pc = gen.pc + 1 /\ gen'.err = "none"]_vars
    /\ []((phase # "gen" /\ gen.err = "PCOverFlow")
             => (ret.st = "Err" /\ ret.err = "PCOverFlow" /\ ret.insts = <<>>))
    /\ [](ret.st = "Ok" => (gen.err = "none" /\ gen.pc = Len(ret.insts)))
\* PCOverFlow was returned while the generator holds a partial program.
C5_Witness ==
    /\ ret.st = "Err"
    /\ ret.err = "PCOverFlow"
    /\ gen.pc = UsizeMax
    /\ Len(gen.insts) >= UsizeMax

ValidPc(e) == e.res # "InvalidPC" /\ (e.res # "idle" => e.pc < Len(ret.insts))

\* C6: while a program returned by get_code is evaluated, the program
\* counter is a valid instruction index in every evaluator state (after a
\* Jump, after a Split, after a consume step, after a backtrack), and no
\* invalid-address error is raised.
C6_ValidPc == ValidPc(evD) /\ ValidPc(evW)
\* A backtrack record was restored after input had been consumed.
C6_Witness ==
    /\ evW.last = "backtrack"
    /\ evW.res = "running"
    /\ evW.stack # <<>>
    /\ evW.sp >= 1
    /\ evD.res \in Booleans

\* The instruction an evaluation is about to execute.
Cur(e) == ret.insts[e.pc + 1]
AtSplit(e) == e.res = "running" /\ e.pc < Len(ret.insts) /\ Cur(e).op = "Split"
\* Number of leading characters of txt, from index k, that leaf x consumes.
RECURSIVE Lead(_, _, _)
Lead(x, txt, k) ==
    IF k <= Len(txt) /\ (x.tag = "Dot" \/ txt[k] = x.c) THEN 1 + Lead(x, txt, k + 1)
    ELSE 0
\* A quantifier applied to one Char or Dot.
SimpleQuantifier(t) ==
    /\ t.tag \in {"Star", "Plus", "Question"}
    /\ t.kids[1].tag \in {"Char", "Dot"}
\* The most characters such a tree can consume at the start of txt.
Greedy(t, txt) ==
    LET n == Lead(t.kids[1], txt, 1)
    IN  IF t.tag = "Question" /\ n > 1 THEN 1 ELSE n
GreedyLayout ==
    LET f == Top(gen)
        n == Len(gen.insts)
    IN  /\ (Running("gen_question") /\ f.at = 3)
            => gen'.insts[f.a + 1] = ISplit(f.a + 1, n)
        /\ (Running("gen_star") /\ f.at = 5)
            => (gen'.insts[f.a + 1] = ISplit(f.a + 1, n) /\ gen.insts[n] = IJump(f.a))
        /\ (Running("gen_plus") /\ f.at = 3)
            => (gen'.insts[n] = ISplit(f.a, n) /\ f.a < n)
GreedyRoot ==
    LET n == Len(ret.insts)
    IN  ret.st = "Ok" =>
          /\ ast.tag \in {"Question", "Star"} => ret.insts[1] = ISplit(1, n - 1)
          /\ ast.tag = "Plus" => ret.insts[n - 1] = ISplit(0, n - 1)
PreferredFirst ==
    /\ (phase = "width" /\ AtSplit(evW) /\ evW' # evW)
          => /\ evW'.pc = Cur(evW).x
             /\ evW'.sp = evW.sp
             /\ evW'.stack = Append(evW.stack, [pc |-> Cur(evW).y, sp |-> evW.sp])
    /\ (phase = "depth" /\ AtSplit(evD) /\ evD'.res = "running")
          => /\ evD'.pc = Cur(evD).x
             /\ evD'.sp = evD.sp
             /\ evD'.stack = Append(evD.stack,
                                [pc |-> Cur(evD).y, sp |-> evD.sp, second |-> FALSE])
GreedyCursor ==
    SimpleQuantifier(ast) =>
        /\ evD.res = "true" => evD.sp = Greedy(ast, text)
        /\ evW.res = "true" => evW.sp = Greedy(ast, text)

\* C7: quantifiers are greedy: the Split of Question(e) and Star(e) prefers
\* the body and falls back to the exit, the Split of Plus(e) prefers the
\* start of the body; the evaluator takes the first target and saves the
\* second; so for Star(x), Plus(x), Question(x) with x a Char or Dot the
\* cursor at Match is the largest number of leading characters the
\* quantifier can consume.
C7_Greedy ==
    /\ [][GreedyLayout]_vars
    /\ []GreedyRoot
    /\ [][PreferredFirst]_vars
    /\ []GreedyCursor
\* a* matched on "aab" with the cursor after both a's, under both strategies.
C7_Witness ==
    /\ ast = AStar(AChar("a"))
    /\ text = <<"a", "a", "b">>
    /\ evD.res = "true"
    /\ evW.res = "true"
    /\ evW.sp = 2

RECURSIVE Swaps(_)
Swaps(t) ==
    (IF t.tag = "Or" THEN {AOr(t.kids[2], t.kids[1])} ELSE {})
    \cup UNION {{Node(t.tag, t.c, [t.kids EXCEPT ![k] = s]) : s \in Swaps(t.kids[k])}
                : k \in 1..Len(t.kids)}
\* Both evaluations of the current tree have ended (or can go no further).
BothEnded == phase = "width" /\ ~WidthCanStep(ret.insts, evW)
DepthOutcome(t) == RunDepth(get_code(t).insts, text, EvalStart).res
WidthOutcome(t) == RunWidth(get_code(t).insts, text, EvalStart).res

\* C8 as claimed: exchanging the branches of an alternation, alone or inside
\* any enclosing expression, leaves the outcome of the evaluation unchanged
\* for every text.
C8_SameOutcome ==
    BothEnded =>
        \A s \in Swaps(ast) :
            /\ DepthOutcome(s) = evD.res
            /\ WidthOutcome(s) = evW.res

\* C8 amended: exchanging the branches of an alternation never changes a
\* boolean result: whenever the evaluations of both orders return a boolean,
\* the two booleans are equal.
C8_BooleansAgree ==
    BothEnded =>
        \A s \in Swaps(ast) :
            /\ (evD.res \in Booleans /\ DepthOutcome(s) \in Booleans)
                   => DepthOutcome(s) = evD.res
            /\ (evW.res \in Booleans /\ WidthOutcome(s) \in Booleans)
                   => WidthOutcome(s) = evW.res
\* (b|a)? matched "ab" through the second branch, the alternation standing
\* inside a quantifier.
C8_Witness ==
    /\ BothEnded
    /\ ast = AQuestion(AOr(AChar("b"), AChar("a")))
    /\ text = <<"a", "b">>
    /\ evD.res = "true"
    /\ evW.res = "true"

\* The matcher's answer on the suffix of line l at offset i.
Found(l, i) == do_matching(ast, Suffix(l, i), TRUE) = "true"
MatchesSomewhere(l) == \E i \in 0..(Len(l) - 1) : Found(l, i)
\* The current line has been printed.
Printed == drv.out # <<>> /\ drv.out[Len(drv.out)] = drv.n
\* The scan of the current line is over.
LineDone == drv.st \in {"line", "done"} /\ drv.n >= 1

\* C10: match_file searches each line unanchored: the lines are taken in
\* input order; on each line the matcher is called on the suffixes at
\* offsets 0, 1, 2, ... in increasing order, up to and including the first
\* offset that matches; the line is printed exactly once when an offset
\* matches and not at all when none does.
C10_Unanchored ==
    /\ \A k \in 1..Len(drv.calls) :
           /\ k <= Len(drv.line)
           /\ drv.calls[k] = do_matching(ast, Suffix(drv.line, k - 1), TRUE)
           /\ k < Len(drv.calls) => drv.calls[k] = "false"
    /\ drv.st = "scan" => (drv.off = Len(drv.calls) /\ ~Printed)
    /\ \A k \in 1..Len(drv.out) :
           /\ drv.out[k] \in 1..drv.n
           /\ k > 1 => drv.out[k - 1] < drv.out[k]
    /\ Printed <=> (drv.calls # <<>> /\ drv.calls[Len(drv.calls)] = "true")
    /\ LineDone =>
           IF MatchesSomewhere(drv.line) THEN Printed
           ELSE ~Printed /\ Len(drv.calls) = Len(drv.line)
\* The second line read matched at offset 1 only and was printed; the first
\* had been printed too.
C10_Witness ==
    /\ drv.st = "line"
    /\ drv.n = 2
    /\ drv.out = <<1, 2>>
    /\ drv.calls = <<"false", "true">>
    /\ Len(drv.line) = 3


\* The result evaluation k ends with when it runs alone from the state e.
Alone(k, e) ==
    IF k = 1 THEN RunDepth(ret.insts, par.tx[1], e).res
    ELSE RunWidth(ret.insts, par.tx[2], e).res

RECURSIVE WidthFate(_, _, _, _)
WidthFate(prog, txt, e, marks) ==
    IF e.res # "running" THEN e.res
    ELSE LET split == e.pc < Len(prog) /\ prog[e.pc + 1].op = "Split"
             e2 == eval_width(prog, txt, e)
         IN  IF split /\ \E m \in marks : m.pc = e.pc /\ m.sp = e.sp
             THEN "diverges"
             ELSE WidthFate(prog, txt, e2,
                            {m \in marks : m.len <= Len(e2.stack)}
                            \cup (IF split
                                  THEN {[pc |-> e.pc, sp |-> e.sp, len |-> Len(e.stack)]}
                                  ELSE {}))

\* C12: for every tree and every text the evaluation of the compiled program
\* under the explicit-stack strategy stops and returns true or false.
C12_Terminates ==
    (phase = "width" /\ evW.last = "start")
        => WidthFate(ret.insts, text, EvalStart, {}) \in Booleans

\* The reference translation of the tree t placed at address a, and its
\* length.
RECURSIVE T(_, _), TLen(_), TSeq(_, _, _)
TLen(t) == Len(T(t, 0))
TSeq(v, k, a) ==
    IF k > Len(v) THEN <<>>
    ELSE T(v[k], a) \o TSeq(v, k + 1, a + TLen(v[k]))
T(t, a) ==
    CASE t.tag = "Char" -> <<IChar(t.c)>>
      [] t.tag = "Dot" -> <<IDot>>
      [] t.tag = "Or" ->
            LET e1 == t.kids[1]
                e2 == t.kids[2]
            IN  <<ISplit(a + 1, a + 2 + TLen(e1))>> \o T(e1, a + 1)
                \o <<IJump(a + 2 + TLen(e1) + TLen(e2))>> \o T(e2, a + 2 + TLen(e1))
      [] t.tag = "Question" ->
            <<ISplit(a + 1, a + 1 + TLen(t.kids[1]))>> \o T(t.kids[1], a + 1)
      [] t.tag = "Plus" ->
            T(t.kids[1], a) \o <<ISplit(a, a + TLen(t.kids[1]) + 1)>>
      [] t.tag = "Star" ->
            <<ISplit(a + 1, a + 2 + TLen(t.kids[1]))>> \o T(t.kids[1], a + 1)
            \o <<IJump(a)>>
      [] t.tag = "Seq" -> TSeq(t.kids, 1, a)

\* C13: the program get_code returns is the reference translation of the
\* tree at address 0 followed by one Match.
C13_Translation == ret.st = "Ok" => ret.insts = T(ast, 0) \o <<IMatch>>
\* a(b*) is compiled: the loop stands at address 1, after the code of a.
C13_Witness ==
    /\ ret.st = "Ok"
    /\ ast = ASeq(<<AChar("a"), AStar(AChar("b"))>>)
    /\ ret.insts[2] = ISplit(2, 4)
    /\ ret.insts[4] = IJump(1)

\* The instruction at address k - 1 was pushed with a placeholder target: the
\* fallback of every Split, and the target of the Jump of an alternation.
Placeholder(k) ==
    \/ gen.insts[k].op = "Split"
    \/ gen.insts[k].op = "Jump" /\ hist.rule[k] = "gen_or"

\* C14: no placeholder survives in a returned program: every placeholder has
\* been overwritten, the fallback of every Split is greater than the Split's
\* address and the target of an alternation's Jump is greater than the
\* Jump's address.
C14_NoPlaceholder ==
    ret.st = "Ok" =>
        \A k \in 1..Len(ret.insts) :
            LET i == ret.insts[k]
            IN  /\ Placeholder(k) => hist.writes[k] >= 1
                /\ i.op = "Split" => i.y > k - 1
                /\ (i.op = "Jump" /\ hist.rule[k] = "gen_or") => i.x > k - 1
\* An alternation inside an optional was compiled: both Splits and the Jump
\* were pushed with 0 and hold forward targets.
C14_Witness ==
    /\ ret.st = "Ok"
    /\ ast = AQuestion(AOr(AChar("a"), AChar("b")))
    /\ ret.insts[1] = ISplit(1, 5)
    /\ ret.insts[2] = ISplit(2, 4)
    /\ ret.insts[4] = IJump(5)

\* The write of one generation step to the instruction at address k - 1 is a
\* backpatch: the variant, the payload and the target that was not a
\* placeholder are kept; it is the first write to that instruction, made by
\* the call that pushed it, and the instruction was emitted after every
\* compilation still under way began.
Backpatch(k) ==
    LET i == gen.insts[k]
        j == gen'.insts[k]
    IN  /\ j.op = i.op
        /\ j.c = i.c
        /\ i.op = "Split" => j.x = i.x
        /\ i.op = "Jump" => j.y = i.y
        /\ Placeholder(k)
        /\ hist.writes[k] = 0
        /\ hist.owner[k] = hist.ids[Len(gen.frames)]
        /\ \A f \in 1..Len(gen.frames) : k > hist.base[f]

\* C15: during generation the instruction sequence only grows at its end,
\* except for backpatching; a placeholder is written exactly once, by the
\* call that emitted it; no instruction emitted before a sub-tree's
\* compilation began is modified by it.
C15_AppendOnly ==
    /\ [][/\ Len(gen'.insts) >= Len(gen.insts)
          /\ \A k \in 1..Len(gen.insts) :
                 gen'.insts[k] # gen.insts[k] => Backpatch(k)]_vars
    /\ [](gen.frames = <<>> /\ gen.err = "none" =>
            \A k \in 1..Len(gen.insts) :
                hist.writes[k] = IF Placeholder(k) THEN 1 ELSE 0)
\* The inner loop of (a*)* has just been closed: its Split, pushed after the
\* outer one, was written once while the outer Split still holds 0.
C15_Witness ==
    /\ ast = AStar(AStar(AChar("a")))
    /\ Len(gen.frames) = 2
    /\ Len(gen.insts) = 4
    /\ hist.writes = <<0, 1, 0, 0>>
    /\ gen.insts[1].y = 0
    /\ gen.insts[2].y = 4

\* C19: the address counter never decreases; it equals the number of
\* instructions emitted when a rule is entered, when a rule returns
\* successfully and when gen_code returns successfully; in between the two
\* differ by at most 1.
C19_Counter ==
    /\ [][/\ gen'.pc >= gen.pc
          /\ Len(gen'.frames) > Len(gen.frames) => gen'.pc = Len(gen'.insts)
          /\ (Len(gen'.frames) < Len(gen.frames) /\ gen'.err = "none")
                 => gen'.pc = Len(gen'.insts)]_vars
    /\ [](/\ gen.pc - Len(gen.insts) \in {-1, 0, 1}
          /\ gen = GenStart(ast) => gen.pc = Len(gen.insts))
\* Inside gen_or the counter is one ahead between inc_pc and the push of the
\* Split, here at address 2 of a(b|.).
C19_Witness ==
    /\ Running("gen_or")
    /\ Top(gen).at = 1
    /\ gen.pc = 2
    /\ Len(gen.insts) = 1

\* The consume instruction the evaluation e is about to execute fails.
ConsumeFails(e) ==
    /\ e.res = "running"
    /\ Cur(e).op \in {"Char", "Dot"}
    /\ ~Consumes(Cur(e), text, e.sp)
\* Every path from the preferred branch of some Split whose fallback is pc,
\* taken at cursor sp, fails.
PreferredFailed(pc, sp) ==
    \E q \in 1..Len(ret.insts) :
        /\ ret.insts[q].op = "Split"
        /\ ret.insts[q].y = pc
        /\ RunWidth(ret.insts, text,
                    [EvalStart EXCEPT !.pc = ret.insts[q].x, !.sp = sp]).res = "false"

Extensions == {text \o s : s \in {x \in Texts : Len(text) + Len(x) <= MaxText}}

\* C17 as claimed: when an evaluation on a text returns true, the evaluation
\* on every extension of the text returns true too.
C17_ExtensionMatches ==
    /\ (phase = "depth" /\ evD.res = "true") =>
           \A x \in Extensions : RunDepth(ret.insts, x, EvalStart).res = "true"
    /\ evW.res = "true" =>
           \A x \in Extensions : WidthFate(ret.insts, x, EvalStart, {}) = "true"

\* C17, amended: when an evaluation on a text returns true, the evaluation
\* on an extension of the text never returns false.
C17_ExtensionNotFalse ==
    /\ (phase = "depth" /\ evD.res = "true") =>
           \A x \in Extensions : RunDepth(ret.insts, x, EvalStart).res # "false"
    /\ evW.res = "true" =>
           \A x \in Extensions : WidthFate(ret.insts, x, EvalStart, {}) # "false"
\* ab? has matched "a" with nothing left to read; it matches "ab" and "aa",
\* and "aab" as well.
C17_Witness ==
    /\ phase = "width"
    /\ ast = ASeq(<<AChar("a"), AQuestion(AChar("b"))>>)
    /\ text = <<"a">>
    /\ evD.res = "true"
    /\ evW.res = "true"
    /\ Cardinality(Extensions) > 4
    /\ \A x \in Extensions : WidthFate(ret.insts, x, EvalStart, {}) = "true"

\* The expression matches the empty text.
MatchesEmpty == do_matching(ast, <<>>, TRUE) = "true"

\* C18: on an empty line the matcher is never called and the line is never
\* printed, whatever the expression; on a non-empty line the empty suffix at
\* its end is never tried.
C18_EmptySuffix ==
    /\ (drv.n >= 1 /\ drv.line = <<>>) => (drv.calls = <<>> /\ ~Printed)
    /\ drv.off <= Len(drv.line)
    /\ Len(drv.calls) <= Len(drv.line)
    /\ (LineDone /\ ~Printed) => drv.off = Len(drv.line)
\* An empty line has been read and left behind unprinted, the expression
\* being one that matches the empty text; the line before it had matched and
\* was printed.
C18_Witness ==
    /\ drv.st = "done"
    /\ drv.n = 2
    /\ drv.line = <<>>
    /\ drv.calls = <<>>
    /\ drv.out = <<1>>
    /\ ast.tag = "Star"
    /\ MatchesEmpty
====
